---- MODULE Spec2Model ----
(***************************************************************************)
(* Model of the xPloreSystem purge belt Klipper extras:                    *)
(*   manual_extruder_stepper.py  ManualExtruderStepper (axis linking)      *)
(*   purgebelt.py                PurgeBelt (sync controller, purge cycle)  *)
(* The two objects share no state; SpecLink drives the first, Spec the     *)
(* second.                                                                 *)
(***************************************************************************)
EXTENDS Integers, Sequences, FiniteSets, TLC

(***************************************************************************)
(* Bounds                                                                  *)
(***************************************************************************)
\* stepper positions range over 0..MaxPos
MaxPos == 1
\* longest channel list the linking model lets a leaked borrow grow to
MaxChannels == 4

None == "None"
\* an absent numeric command parameter
NoVal == -1

Pos == 0..MaxPos

Range(s) == {s[i] : i \in 1..Len(s)}

(***************************************************************************)
(* Exact rational arithmetic for the float computations of purgebelt.py.   *)
(* A number is <<n, d>> with d > 0 in lowest terms.                        *)
(***************************************************************************)
RECURSIVE Gcd(_, _)
Gcd(a, b) == IF b = 0 THEN a ELSE Gcd(b, a % b)

Abs(a) == IF a < 0 THEN -a ELSE a

Rat(n, d) ==
    LET sn == IF d < 0 THEN -n ELSE n
        sd == Abs(d)
        g == Gcd(Abs(sn), sd)
    IN  <<sn \div g, sd \div g>>

N(i) == <<i, 1>>
RAdd(a, b) == Rat(a[1] * b[2] + b[1] * a[2], a[2] * b[2])
RSub(a, b) == Rat(a[1] * b[2] - b[1] * a[2], a[2] * b[2])
RMul(a, b) == Rat(a[1] * b[1], a[2] * b[2])
RDiv(a, b) == Rat(a[1] * b[2], a[2] * b[1])
RLt(a, b) == a[1] * b[2] < b[1] * a[2]
RLe(a, b) == a[1] * b[2] <= b[1] * a[2]
\* int(math.ceil(a)); the _floor variant rounds down instead
RCeil_floor(a) == a[1] \div a[2]

RCeil(a) == -((-a[1]) \div a[2])

\* math.pi, by its rational approximation 22/7
Pi == Rat(22, 7)

(***************************************************************************)
(* PurgeBelt: configuration ([purgebelt] section defaults)                 *)
(***************************************************************************)
park_pos_x == N(10)
park_pos_y == N(10)
park_pos_z == N(2)
purge_belt_z == N(0)
filament_diameter == Rat(7, 4)
purge_length == N(50)
purged_length_section_max == N(200)
purge_layer_height == Rat(2, 5)
purge_extrusion_width == Rat(2, 5)
purge_belt_outfeed_length == N(100)
purge_belt_retract_travel_dist == N(10)
extrude_speed == N(5)
travel_speed == N(100)
approach_speed == N(5)
retract_speed == N(20)
retract_dist == N(5)
pause_time == N(1)
pause_qty == 1
max_flow_rate == N(40)
flow_rate == N(30)
\* rotation_distance of [manual_stepper purge_belt_stepper] as configured
BeltRotationDistance == N(40)

\* (math.pi / 4) * self.filament_diameter ** 2
FilamentArea == RMul(RDiv(Pi, N(4)), RMul(filament_diameter, filament_diameter))

\* string.ascii_uppercase
ascii_uppercase ==
    <<"A", "B", "C", "D", "E", "F", "G", "H", "I", "J", "K", "L", "M",
      "N", "O", "P", "Q", "R", "S", "T", "U", "V", "W", "X", "Y", "Z">>
ReservedLetters == {"X", "Y", "Z", "E", "F", "N"}

(***************************************************************************)
(* ManualExtruderStepper: state                                            *)
(***************************************************************************)
VARIABLES
    motion_queue,         \* self.motion_queue: None or an extruder name
    synced_extruder_name, \* self.synced_extruder_name
    steppers,             \* self.steppers: actuator-level channel list
    rail_steppers,        \* self.rail.steppers: rail-level channel list
    sk,                   \* channel -> stepper kinematics handle
    trapq,                \* channel -> trapq handle
    pos,                  \* kinematics handle -> commanded position it holds
    enabled,              \* motor enable state of the manual stepper
    endstop_steppers,     \* endstop name -> set of channels added to it
    sess,                 \* the open _with_linked_* generator frame, if any
    snap,                 \* state before the session entry just made (history)
    last                  \* last operation called and how it ended (history)

linkVars == <<motion_queue, synced_extruder_name, steppers, rail_steppers, sk,
              trapq, pos, enabled, endstop_steppers, sess, snap, last>>

\* the manual stepper's own channels (self.steppers after construction)
OwnSteppers == <<"a1", "a2">>
\* self.alt_stepper_sks: the manual-mode kinematics of each own channel
alt_stepper_sks == <<"manual_sk_a1", "manual_sk_a2">>
\* self.trapq of the manual stepper
manual_trapq == "manual_trapq"
\* the stepper of the active extruder and the stepper of another manual stepper
ExtruderStepper == "extruder_stepper"
OtherStepper == "b1"
Channels == Range(OwnSteppers) \cup {ExtruderStepper, OtherStepper}
\* the stepper kinematics objects: the own channels' manual ones, self.sk_extruder,
\* self.linked_move_sk, and the ones the borrowable steppers start with
Sks == Range(alt_stepper_sks) \cup
       {"sk_extruder", "linked_move_sk", "extruder_own_sk", "b_manual_sk"}

\* the kinematic model behind a handle: extruder_stepper_alloc() for
\* self.sk_extruder and the extruder stepper's own, cartesian_stepper_alloc('x')
\* for self.linked_move_sk and for the single-axis handles of manual steppers
sk_model(h) ==
    IF h \in {"sk_extruder", "extruder_own_sk"} THEN "extruder" ELSE "cartesian_x"

\* names handed to printer.lookup_object / toolhead.get_extruder
ActiveExtruder == "extruder"
PrinterExtruders == {"extruder", "extruder1"}
ManualSteppers == {"manual_stepper b"}
ObjectNames == PrinterExtruders \cup ManualSteppers \cup {"nosuch"}
\* the names tried as a linked extruder (the active one, an inactive one) and
\* as a linked stepper (a manual stepper, an object of another class)
LinkedExtruderArgs == {"extruder", "extruder1"}
LinkedStepperArgs == {"manual_stepper b", "extruder"}
\* extruder.get_trapq() and extruder.last_position of each PrinterExtruder
ExtruderTrapq == [e \in PrinterExtruders |-> "trapq_" \o e]
ExtruderLastPosition == [e \in PrinterExtruders |-> IF e = "extruder" THEN MaxPos ELSE 0]

\* endstops the manual stepper's rail knows
KnownEndstops == {"default"}
EndstopNames == {None, "default", "nosuch"}

\* self.get_endstop(endstop_name): the endstop, or None when the name is unknown
get_endstop(endstop_name) ==
    IF endstop_name \in KnownEndstops THEN endstop_name ELSE None

NoSess == [pc |-> "idle"]
NoSnap == [taken |-> FALSE]

InitLink ==
    /\ motion_queue = None
    /\ synced_extruder_name = None
    /\ steppers = OwnSteppers
    /\ rail_steppers = OwnSteppers
    /\ sk = [c \in Channels |->
                IF c = "a1" THEN alt_stepper_sks[1]
                ELSE IF c = "a2" THEN alt_stepper_sks[2]
                ELSE IF c = ExtruderStepper THEN "extruder_own_sk"
                ELSE "b_manual_sk"]
    /\ trapq = [c \in Channels |->
                IF c \in Range(OwnSteppers) THEN manual_trapq
                ELSE IF c = ExtruderStepper THEN ExtruderTrapq[ActiveExtruder]
                ELSE "b_trapq"]
    /\ pos = [k \in Sks |-> 0]
    /\ enabled = FALSE
    /\ endstop_steppers = [e \in KnownEndstops |-> Range(OwnSteppers)]
    /\ sess = NoSess
    /\ snap = NoSnap
    /\ last = [op |-> "init", result |-> "ok", msg |-> ""]

(***************************************************************************)
(* ManualExtruderStepper: the methods as functions of the object state     *)
(***************************************************************************)
\* the fields the methods below read and write, as one record
Cur ==
    [motion_queue |-> motion_queue, synced_extruder_name |-> synced_extruder_name,
     steppers |-> steppers, rail_steppers |-> rail_steppers, sk |-> sk,
     trapq |-> trapq, pos |-> pos, endstop_steppers |-> endstop_steppers]

Commit(S) ==
    /\ motion_queue' = S.motion_queue
    /\ synced_extruder_name' = S.synced_extruder_name
    /\ steppers' = S.steppers
    /\ rail_steppers' = S.rail_steppers
    /\ sk' = S.sk
    /\ trapq' = S.trapq
    /\ pos' = S.pos
    /\ endstop_steppers' = S.endstop_steppers

Min(a, b) == IF a < b THEN a ELSE b

\* PrinterRail.set_trapq / set_position: applied to every stepper of the rail
rail_set_trapq(S, tq) ==
    [S EXCEPT !.trapq = [c \in Channels |->
        IF c \in Range(S.rail_steppers) THEN tq ELSE S.trapq[c]]]

\* MCU_stepper.set_position / get_commanded_position act on the stepper's
\* current kinematics object
rail_set_position(S, p) ==
    [S EXCEPT !.pos = [k \in Sks |->
        IF \E c \in Range(S.rail_steppers) : S.sk[c] = k THEN p ELSE S.pos[k]]]

get_commanded_position(S, c) == S.pos[S.sk[c]]

\* for s, sk in zip(self.steppers, self.alt_stepper_sks): s.set_stepper_kinematics(sk)
\* then self.rail.set_trapq(self.trapq)
set_manual_kinematics(S) ==
    LET n == Min(Len(S.steppers), Len(alt_stepper_sks))
        zipped(c) == {i \in 1..n : S.steppers[i] = c}
        S1 == [S EXCEPT !.sk = [c \in Channels |->
                 IF zipped(c) # {}
                 THEN alt_stepper_sks[CHOOSE i \in zipped(c) : \A j \in zipped(c) : j <= i]
                 ELSE S.sk[c]]]
    IN  rail_set_trapq(S1, manual_trapq)

\* sync_to_extruder(extruder_name): [st |-> state after, raised |-> error raised]
sync_to_extruder(S, extruder_name) ==
    IF extruder_name = None
    THEN [st |-> [set_manual_kinematics(S) EXCEPT !.motion_queue = None,
                                                  !.synced_extruder_name = None],
          raised |-> FALSE]
    ELSE IF extruder_name \notin PrinterExtruders
    THEN [st |-> S, raised |-> TRUE]
    ELSE LET S1 == [S EXCEPT !.sk = [c \in Channels |->
                       IF c \in Range(S.steppers) THEN "sk_extruder" ELSE S.sk[c]]]
             S2 == rail_set_position(S1, ExtruderLastPosition[extruder_name])
             S3 == rail_set_trapq(S2, ExtruderTrapq[extruder_name])
         IN  [st |-> [S3 EXCEPT !.motion_queue = extruder_name,
                                !.synced_extruder_name = extruder_name],
              raised |-> FALSE]

is_synced == motion_queue # None

\* The body of both context managers from "Switch manual stepper to manual mode"
\* up to the yield, for the resolved channel b:
\* [st |-> state, raised |-> endstop not found, frame |-> the saved locals];
\* the _unseeded variant leaves out the set_position of the borrowed channel
linked_enter_unseeded(S, b, endstop_name) ==
    LET manual_stepper_mq == S.motion_queue
        manual_steppers == S.steppers
        S1 == sync_to_extruder(S, None).st
        prev_manual_steppers == S1.steppers
        prev_manual_rail_steppers == S1.rail_steppers
        S2 == [S1 EXCEPT !.steppers = Append(S1.steppers, b),
                         !.rail_steppers = Append(S1.rail_steppers, b)]
        prev_sk == S2.sk[b]
        prev_trapq == S2.trapq[b]
        S3 == [S2 EXCEPT !.sk[b] = "linked_move_sk",
                         !.trapq[b] = manual_trapq]
        S4 == S3
        frame == [borrowed |-> b, manual_stepper_mq |-> manual_stepper_mq,
                  prev_manual_steppers |-> prev_manual_steppers,
                  prev_manual_rail_steppers |-> prev_manual_rail_steppers,
                  prev_sk |-> prev_sk, prev_trapq |-> prev_trapq]
    IN  IF endstop_name = None
        THEN [st |-> S4, raised |-> FALSE, frame |-> frame]
        ELSE IF get_endstop(endstop_name) # None
        THEN [st |-> [S4 EXCEPT !.endstop_steppers[endstop_name] = @ \cup {b}],
              raised |-> FALSE, frame |-> frame]
        ELSE [st |-> S4, raised |-> TRUE, frame |-> frame]

linked_enter(S, b, endstop_name) ==
    LET manual_stepper_mq == S.motion_queue
        manual_steppers == S.steppers
        S1 == sync_to_extruder(S, None).st
        prev_manual_steppers == S1.steppers
        prev_manual_rail_steppers == S1.rail_steppers
        S2 == [S1 EXCEPT !.steppers = Append(S1.steppers, b),
                         !.rail_steppers = Append(S1.rail_steppers, b)]
        prev_sk == S2.sk[b]
        prev_trapq == S2.trapq[b]
        S3 == [S2 EXCEPT !.sk[b] = "linked_move_sk",
                         !.trapq[b] = manual_trapq]
        p == get_commanded_position(S3, manual_steppers[1])
        S4 == [S3 EXCEPT !.pos[S3.sk[b]] = p]
        frame == [borrowed |-> b, manual_stepper_mq |-> manual_stepper_mq,
                  prev_manual_steppers |-> prev_manual_steppers,
                  prev_manual_rail_steppers |-> prev_manual_rail_steppers,
                  prev_sk |-> prev_sk, prev_trapq |-> prev_trapq]
    IN  IF endstop_name = None
        THEN [st |-> S4, raised |-> FALSE, frame |-> frame]
        ELSE IF get_endstop(endstop_name) # None
        THEN [st |-> [S4 EXCEPT !.endstop_steppers[endstop_name] = @ \cup {b}],
              raised |-> FALSE, frame |-> frame]
        ELSE [st |-> S4, raised |-> TRUE, frame |-> frame]

\* the finally block of both context managers; the _norestore_trapq variant
\* leaves out "self.steppers[-1].set_trapq(prev_trapq)"
linked_exit_norestore_trapq(S, f) ==
    LET S1 == [S EXCEPT !.steppers = f.prev_manual_steppers,
                        !.rail_steppers = f.prev_manual_rail_steppers,
                        !.sk[f.borrowed] = f.prev_sk]
    IN  sync_to_extruder(S1, f.manual_stepper_mq).st

linked_exit(S, f) ==
    LET S1 == [S EXCEPT !.steppers = f.prev_manual_steppers,
                        !.rail_steppers = f.prev_manual_rail_steppers,
                        !.sk[f.borrowed] = f.prev_sk,
                        !.trapq[f.borrowed] = f.prev_trapq]
    IN  sync_to_extruder(S1, f.manual_stepper_mq).st

\* _with_linked_extruder: the name must be the active extruder's
with_linked_extruder_target(extruder_name) ==
    IF extruder_name # ActiveExtruder THEN None ELSE ExtruderStepper

\* _with_linked_stepper: the name must be a manual stepper object; the _any
\* variant takes the stepper of whatever the name gives
with_linked_stepper_target_any(stepper_name) == OtherStepper

with_linked_stepper_target(stepper_name) ==
    IF stepper_name \notin ManualSteppers THEN None ELSE OtherStepper

Done(op, result, msg) == last' = [op |-> op, result |-> result, msg |-> msg]

SessionOp(kind) ==
    IF kind = "extruder" THEN "_with_linked_extruder" ELSE "_with_linked_stepper"

\* Entering a session (the with statement) from object state S: resolve the
\* target, run the entry code, and either raise or stop at the yield with the
\* wrapped call (wrapped, movepos) pending.
EnterSession(S, kind, name, endstop_name, wrapped, movepos) ==
    LET op == SessionOp(kind)
        b == IF kind = "extruder" THEN with_linked_extruder_target(name)
             ELSE with_linked_stepper_target(name)
    IN  IF b = None
        THEN /\ Done(op, "command_error", "target_not_found")
             /\ Commit(S)
             /\ snap' = NoSnap
             /\ UNCHANGED sess
        ELSE LET r == linked_enter(S, b, endstop_name)
             IN  /\ Len(S.steppers) < MaxChannels
                 /\ Commit(r.st)
                 /\ snap' = [taken |-> TRUE, borrowed |-> b,
                             motion_queue |-> S.motion_queue,
                             steppers |-> S.steppers,
                             rail_steppers |-> S.rail_steppers,
                             sk |-> S.sk, trapq |-> S.trapq,
                             cpos |-> [c \in Channels |-> S.pos[S.sk[c]]],
                             endstop_steppers |-> S.endstop_steppers]
                 /\ IF r.raised
                    THEN /\ sess' = NoSess
                         /\ Done(op, "command_error", "endstop_not_found")
                    ELSE /\ sess' = [pc |-> "yielded", op |-> op, frame |-> r.frame,
                                     wrapped |-> wrapped, movepos |-> movepos,
                                     exc |-> FALSE]
                         /\ Done(op, "running", "")

Idle == sess.pc = "idle"

Rejected(op, result) ==
    /\ Done(op, result, "synced")
    /\ snap' = NoSnap
    /\ UNCHANGED <<motion_queue, synced_extruder_name, steppers, rail_steppers,
                   sk, trapq, pos, enabled, endstop_steppers, sess>>

(***************************************************************************)
(* ManualExtruderStepper: operations                                       *)
(***************************************************************************)
do_enable(enable) ==
    /\ Idle
    /\ IF motion_queue # None
       THEN Rejected("do_enable", "AssertionError")
       ELSE /\ enabled' = enable
            /\ Done("do_enable", "ok", "")
            /\ snap' = NoSnap
            /\ UNCHANGED <<motion_queue, synced_extruder_name, steppers,
                           rail_steppers, sk, trapq, pos, endstop_steppers,
                           sess>>

do_set_position(setpos) ==
    /\ Idle
    /\ IF motion_queue # None
       THEN Rejected("do_set_position", "AssertionError")
       ELSE /\ Commit(rail_set_position(Cur, setpos))
            /\ Done("do_set_position", "ok", "")
            /\ UNCHANGED <<enabled, sess>> /\ snap' = NoSnap

\* do_move; the _unguarded variant is do_move without its assertion
do_move_unguarded(movepos) ==
    /\ Idle
    /\ Commit(rail_set_position(Cur, movepos))
    /\ Done("do_move", "ok", "")
    /\ UNCHANGED <<enabled, sess>> /\ snap' = NoSnap

do_move(movepos) ==
    /\ Idle
    /\ IF motion_queue # None
       THEN Rejected("do_move", "AssertionError")
       ELSE /\ Commit(rail_set_position(Cur, movepos))
            /\ Done("do_move", "ok", "")
            /\ UNCHANGED <<enabled, sess>> /\ snap' = NoSnap

\* the homing move stops wherever the endstop triggers, or fails; the target
\* position only bounds the travel and is not modelled
do_homing_move ==
    /\ Idle
    /\ IF motion_queue # None
       THEN Rejected("do_homing_move", "AssertionError")
       ELSE \E p \in Pos, ok \in BOOLEAN :
            /\ Commit(rail_set_position(Cur, p))
            /\ IF ok THEN Done("do_homing_move", "ok", "")
                     ELSE Done("do_homing_move", "command_error", "homing_failed")
            /\ UNCHANGED <<enabled, sess>> /\ snap' = NoSnap

do_linked_homing_move(linked_extruder, endstop_name) ==
    /\ Idle
    /\ IF motion_queue # None
       THEN Rejected("do_linked_homing_move", "AssertionError")
       ELSE /\ EnterSession(Cur, "extruder", linked_extruder, endstop_name,
                            "homing", NoVal)
            /\ UNCHANGED enabled

do_linked_move(movepos, linked_extruder) ==
    /\ Idle
    /\ IF motion_queue # None
       THEN Rejected("do_linked_move", "AssertionError")
       ELSE /\ EnterSession(Cur, "extruder", linked_extruder, None,
                            "move", movepos)
            /\ UNCHANGED enabled

do_linked_stepper_homing_move(linked_stepper_name, endstop_name) ==
    /\ Idle
    /\ IF motion_queue # None
       THEN Rejected("do_linked_stepper_homing_move", "AssertionError")
       ELSE IF linked_stepper_name = None
       THEN /\ Done("do_linked_stepper_homing_move", "command_error", "no_name")
            /\ snap' = NoSnap
            /\ UNCHANGED <<motion_queue, synced_extruder_name, steppers,
                           rail_steppers, sk, trapq, pos, enabled,
                           endstop_steppers, sess>>
       ELSE /\ EnterSession(Cur, "stepper", linked_stepper_name, endstop_name,
                            "homing", NoVal)
            /\ UNCHANGED enabled

do_linked_stepper_move(movepos, linked_stepper_name) ==
    /\ Idle
    /\ IF motion_queue # None
       THEN Rejected("do_linked_stepper_move", "AssertionError")
       ELSE IF linked_stepper_name = None
       THEN /\ Done("do_linked_stepper_move", "command_error", "no_name")
            /\ snap' = NoSnap
            /\ UNCHANGED <<motion_queue, synced_extruder_name, steppers,
                           rail_steppers, sk, trapq, pos, enabled,
                           endstop_steppers, sess>>
       ELSE /\ EnterSession(Cur, "stepper", linked_stepper_name, None,
                            "move", movepos)
            /\ UNCHANGED enabled

\* MANUAL_EXTRUDER_STEPPER [ENABLE] [SET_POSITION] [MOVE [STOP_ON_ENDSTOP]]
\* with EXTRUDER and ENDSTOP names; an absent number is NoVal
cmd_MANUAL_EXTRUDER_STEPPER(enable, setpos, homing_move, move, extruder_name, endstop_name) ==
    /\ Idle
    /\ IF motion_queue # None
       THEN Rejected("cmd_MANUAL_EXTRUDER_STEPPER", "command_error")
       ELSE LET S1 == IF setpos # NoVal THEN rail_set_position(Cur, setpos) ELSE Cur
            IN  /\ enabled' = IF enable # NoVal THEN enable # 0 ELSE enabled
                /\ IF homing_move /\ move = NoVal
                   THEN /\ Done("cmd_MANUAL_EXTRUDER_STEPPER", "command_error", "no_move")
                        /\ Commit(S1)
                        /\ snap' = NoSnap
                        /\ UNCHANGED sess
                   ELSE IF homing_move
                   THEN EnterSession(S1, "extruder", extruder_name, endstop_name,
                                     "homing", NoVal)
                   ELSE IF move # NoVal
                   THEN EnterSession(S1, "extruder", extruder_name, None,
                                     "move", move)
                   ELSE /\ Done("cmd_MANUAL_EXTRUDER_STEPPER", "ok", "")
                        /\ Commit(S1)
                        /\ snap' = NoSnap
                        /\ UNCHANGED sess

\* SYNC_EXTRUDER_MOTION and other callers of sync_to_extruder
cmd_SYNC_EXTRUDER_MOTION(extruder_name) ==
    /\ Idle
    /\ LET r == sync_to_extruder(Cur, extruder_name)
       IN  /\ Commit(r.st)
           /\ IF r.raised
              THEN Done("sync_to_extruder", "command_error", "extruder_not_found")
              ELSE Done("sync_to_extruder", "ok", "")
    /\ UNCHANGED <<enabled, sess>> /\ snap' = NoSnap

\* the context managers entered by a caller other than the do_linked_* methods
with_linked_extruder(extruder_name, endstop_name, wrapped, movepos) ==
    /\ Idle
    /\ EnterSession(Cur, "extruder", extruder_name, endstop_name, wrapped, movepos)
    /\ UNCHANGED enabled

with_linked_stepper(stepper_name, endstop_name, wrapped, movepos) ==
    /\ Idle
    /\ EnterSession(Cur, "stepper", stepper_name, endstop_name, wrapped, movepos)
    /\ UNCHANGED enabled

\* the wrapped call at the yield: super().do_move or super().do_mh_homing_move
WrappedMove ==
    /\ sess.pc = "yielded"
    /\ sess.wrapped = "move"
    /\ Commit(rail_set_position(Cur, sess.movepos))
    /\ sess' = [sess EXCEPT !.pc = "finally"]
    /\ UNCHANGED <<enabled, snap, last>>

WrappedHomingMove ==
    /\ sess.pc = "yielded"
    /\ sess.wrapped = "homing"
    /\ \E p \in Pos, ok \in BOOLEAN :
        /\ Commit(rail_set_position(Cur, p))
        /\ sess' = [sess EXCEPT !.pc = "finally", !.exc = ~ok]
    /\ UNCHANGED <<enabled, snap, last>>

\* leaving the with statement: the finally block, then the pending error if any
SessionExit ==
    /\ sess.pc = "finally"
    /\ Commit(linked_exit(Cur, sess.frame))
    /\ sess' = NoSess
    /\ IF sess.exc THEN Done(sess.op, "command_error", "wrapped_failed")
                   ELSE Done(sess.op, "ok", "")
    /\ UNCHANGED <<enabled, snap>>

OptPos == Pos \cup {NoVal}

\* the wrapped call a caller of the context managers makes: its kind and target
WrappedArgs == {<<"move", p>> : p \in Pos} \cup {<<"homing", NoVal>>}

\* MOVE / STOP_ON_ENDSTOP / EXTRUDER / ENDSTOP of MANUAL_EXTRUDER_STEPPER; the
\* names are read only by the branch that uses them
CmdMoveArgs ==
    {<<FALSE, NoVal, "extruder", "default">>, <<TRUE, NoVal, "extruder", "default">>}
    \cup {<<FALSE, m, n, "default">> : m \in Pos, n \in LinkedExtruderArgs}
    \cup {<<TRUE, MaxPos, n, e>> : n \in LinkedExtruderArgs, e \in EndstopNames}

\* ENABLE, SET_POSITION and the move parameters of MANUAL_EXTRUDER_STEPPER:
\* ENABLE and SET_POSITION in every combination without a linked move, every
\* linked move without them, and both together for a move and a homing move
CmdArgs ==
    {<<en, sp, FALSE, NoVal, "extruder", "default">> : en \in {NoVal, 0, 1}, sp \in OptPos}
    \cup {<<NoVal, NoVal, a[1], a[2], a[3], a[4]>> : a \in CmdMoveArgs}
    \cup {<<1, 0, FALSE, MaxPos, "extruder", "default">>,
          <<1, 0, TRUE, MaxPos, "extruder", "nosuch">>}

(***************************************************************************)
(* PurgeBelt: state                                                        *)
(***************************************************************************)
VARIABLES
    sync_status,          \* self.sync_status
    rotation_distance,    \* rotation distance of the belt stepper
    last_purge_belt_rotation_distance, \* value saved by sync_purge_belt
    ea_index,             \* self.ea_index
    belt_axis,            \* g-code axis letter the belt stepper is mapped to
    other_axes,           \* axis letters mapped to other manual steppers
    belt_pos,             \* purge_belt_stepper.get_position()[0]
    toolhead_pos,         \* toolhead commanded position [x, y, z, e, a]
    last_position,        \* gcode_move.last_position
    init_pos,             \* self.init_pos
    return_to_start_pos,  \* config option return_to_start_pos
    pc,                   \* statement of purge_cycle about to run, or "idle"
    cyc,                  \* arguments and locals of the running purge_cycle
    trace,                \* phases of the current cycle issued so far (history)
    failed_syncs,         \* number of syncs that raised (bounds the model)
    plast,                \* last command and how it ended (history)
    pending,              \* phases queued on the toolhead and not yet waited for
    cfg                   \* the [purgebelt] options the derivation reads

purgeVars == <<sync_status, rotation_distance, last_purge_belt_rotation_distance,
               ea_index, belt_axis, other_axes, belt_pos, toolhead_pos,
               last_position, init_pos, return_to_start_pos, pc, cyc, trace,
               failed_syncs, plast, pending>>

vars == <<linkVars, purgeVars, cfg>>

\* the options as read by __init__ when the section leaves them out
DefaultConfig ==
    [purged_length_section_max |-> purged_length_section_max,
     extrude_speed |-> extrude_speed, pause_qty |-> pause_qty,
     max_flow_rate |-> max_flow_rate, flow_rate |-> flow_rate]

\* the sections tried: the defaults, and the defaults with one option set.
\* getfloat(..., above=0) accepts any positive value, getint('pause_qty', 1)
\* any integer; flow_rate and extrude_speed are not checked against
\* max_flow_rate.
Configs ==
    {DefaultConfig}
    \cup {[DefaultConfig EXCEPT !.flow_rate = f] : f \in {N(40), N(50)}}
    \cup {[DefaultConfig EXCEPT !.max_flow_rate = f] : f \in {N(10), N(30)}}
    \cup {[DefaultConfig EXCEPT !.extrude_speed = v] : v \in {N(1), N(20)}}
    \cup {[DefaultConfig EXCEPT !.pause_qty = q] : q \in {0, 2}}
    \cup {[DefaultConfig EXCEPT !.purged_length_section_max = m] :
            m \in {N(100), N(1000)}}

\* a value never read before it is written
Unset == N(0)
Origin == [x |-> N(0), y |-> N(0), z |-> N(0), e |-> N(0), a |-> N(0)]
NoCyc == [pause_qty |-> 0]

InitPurge ==
    /\ sync_status = FALSE
    /\ rotation_distance = BeltRotationDistance
    /\ last_purge_belt_rotation_distance = Unset
    /\ ea_index = NoVal
    /\ belt_axis = None
    /\ other_axes = {}
    /\ belt_pos = N(0)
    /\ toolhead_pos = Origin
    /\ last_position = Origin
    /\ init_pos = Origin
    /\ return_to_start_pos \in BOOLEAN
    /\ pc = "idle"
    /\ cyc = NoCyc
    /\ trace = <<>>
    /\ failed_syncs = 0
    /\ plast = [op |-> "init", result |-> "ok", rd_before |-> BeltRotationDistance,
                synced_before |-> FALSE]
    /\ pending = <<>>

(***************************************************************************)
(* PurgeBelt: synchronization controller                                   *)
(***************************************************************************)
\* the fields sync_purge_belt and unsync_purge_belt read and write
CurBelt ==
    [sync_status |-> sync_status, rotation_distance |-> rotation_distance,
     last_purge_belt_rotation_distance |-> last_purge_belt_rotation_distance,
     ea_index |-> ea_index, belt_axis |-> belt_axis,
     toolhead_pos |-> toolhead_pos, last_position |-> last_position]

CommitBelt(B) ==
    /\ sync_status' = B.sync_status
    /\ rotation_distance' = B.rotation_distance
    /\ last_purge_belt_rotation_distance' = B.last_purge_belt_rotation_distance
    /\ ea_index' = B.ea_index
    /\ belt_axis' = B.belt_axis
    /\ toolhead_pos' = B.toolhead_pos
    /\ last_position' = B.last_position

\* gcode_move.axis_map.keys()
AxisMapKeys(B) ==
    {"X", "Y", "Z", "E"} \cup other_axes \cup
    (IF B.belt_axis = None THEN {} ELSE {B.belt_axis})

calc_purge_belt_rotation_distance_synced(B, layer_height, extrusion_width) ==
    LET extruder_flow_area == FilamentArea
        purge_belt_flow_correction_factor ==
            RDiv(extruder_flow_area, RMul(layer_height, extrusion_width))
        purge_belt_rotation_distance_initial == B.rotation_distance
    IN  RDiv(purge_belt_rotation_distance_initial, purge_belt_flow_correction_factor)

\* first letter of A..Z that is not reserved and not a key of the axis map,
\* None when there is none (the ValueError); the _last variant scans Z..A
get_available_ea_label_last(B) ==
    LET free == {i \in 1..Len(ascii_uppercase) :
                    /\ ascii_uppercase[i] \notin ReservedLetters
                    /\ ascii_uppercase[i] \notin AxisMapKeys(B)}
    IN  IF free = {} THEN None
        ELSE ascii_uppercase[CHOOSE i \in free : \A j \in free : j <= i]

get_available_ea_label(B) ==
    LET free == {i \in 1..Len(ascii_uppercase) :
                    /\ ascii_uppercase[i] \notin ReservedLetters
                    /\ ascii_uppercase[i] \notin AxisMapKeys(B)}
    IN  IF free = {} THEN None
        ELSE ascii_uppercase[CHOOSE i \in free : \A j \in free : i <= j]

\* MANUAL_STEPPER STEPPER=purge_belt_stepper GCODE_AXIS=<ea>: the belt becomes
\* the last extra axis of the toolhead, at its current position; an empty
\* letter removes it again
manual_stepper_gcode_axis(B, ea) ==
    IF ea = None
    THEN [B EXCEPT !.belt_axis = None,
                   !.toolhead_pos.a = N(0), !.last_position.a = N(0)]
    ELSE [B EXCEPT !.belt_axis = ea,
                   !.toolhead_pos.a = belt_pos, !.last_position.a = belt_pos]

\* self.gcode_move.axis_map[ea]: X, Y, Z, E, then the extra axes in the order
\* they were added
get_ea_index(B, ea) == 4 + Cardinality(other_axes)

\* sync_purge_belt returns [st |-> state after, raised |-> ValueError raised];
\* the _from_free variant is sync_purge_belt without the test of sync_status
sync_purge_belt_from_free(B, layer_height, extrusion_width) ==
    LET B1 == [B EXCEPT !.last_purge_belt_rotation_distance = B.rotation_distance]
        rotation_dist ==
            calc_purge_belt_rotation_distance_synced(B1, layer_height, extrusion_width)
        B2 == [B1 EXCEPT !.rotation_distance = rotation_dist]
        ea == get_available_ea_label(B2)
    IN  IF ea = None
        THEN [st |-> B2, raised |-> TRUE]
        ELSE LET B3 == manual_stepper_gcode_axis(B2, ea)
             IN  [st |-> [B3 EXCEPT !.ea_index = get_ea_index(B3, ea),
                                    !.sync_status = TRUE],
                  raised |-> FALSE]

sync_purge_belt(B, layer_height, extrusion_width) ==
    IF B.sync_status
    THEN [st |-> B, raised |-> FALSE]
    ELSE LET B1 == [B EXCEPT !.last_purge_belt_rotation_distance = B.rotation_distance]
             rotation_dist ==
                 calc_purge_belt_rotation_distance_synced(B1, layer_height, extrusion_width)
             B2 == [B1 EXCEPT !.rotation_distance = rotation_dist]
             ea == get_available_ea_label(B2)
         IN  IF ea = None
             THEN [st |-> B2, raised |-> TRUE]
             ELSE LET B3 == manual_stepper_gcode_axis(B2, ea)
                  IN  [st |-> [B3 EXCEPT !.ea_index = get_ea_index(B3, ea),
                                         !.sync_status = TRUE],
                       raised |-> FALSE]

unsync_purge_belt(B) ==
    IF ~B.sync_status
    THEN B
    ELSE LET B1 == manual_stepper_gcode_axis(B, None)
         IN  [B1 EXCEPT !.rotation_distance = B.last_purge_belt_rotation_distance,
                        !.sync_status = FALSE]

(***************************************************************************)
(* PurgeBelt: PURGE_WITH_BELT parameter derivation                         *)
(***************************************************************************)
\* an absent float / int command parameter
NoRat == <<0, 0>>
NoInt == -1000

\* "if flow_rate > self.max_flow_rate: flow_rate = self.max_flow_rate"; the
\* _unclamped variant passes the request through
ClampFlowRate_unclamped(fr) == fr

ClampFlowRate(fr) == IF RLt(cfg.max_flow_rate, fr) THEN cfg.max_flow_rate ELSE fr

\* cmd_PURGE_WITH_BELT up to the call of purge_cycle, for the request
\* [layer_height, extrusion_width, purge_volume, purge_length, pause_qty,
\*  flow_rate, extrusion_speed, pause_time] (absent parameters NoRat / NoInt)
DerivePurge(req) ==
    LET lh == IF req.layer_height = NoRat THEN purge_layer_height ELSE req.layer_height
        ew == IF req.extrusion_width = NoRat THEN purge_extrusion_width
              ELSE req.extrusion_width
        hasVolume == req.purge_volume # NoRat /\ req.purge_volume # N(0)
        len == IF hasVolume THEN RDiv(req.purge_volume, FilamentArea)
               ELSE IF req.purge_length = NoRat THEN purge_length
               ELSE req.purge_length
        vol == IF hasVolume THEN req.purge_volume ELSE RMul(FilamentArea, len)
        purged_length == RDiv(vol, RMul(ew, lh))
        pq == IF req.pause_qty = NoInt /\ RLt(cfg.purged_length_section_max, purged_length)
              THEN RCeil(RDiv(purged_length, cfg.purged_length_section_max))
              ELSE IF req.pause_qty = NoInt THEN cfg.pause_qty ELSE req.pause_qty
        fr == IF req.flow_rate # NoRat THEN ClampFlowRate(req.flow_rate)
              ELSE IF req.extrusion_speed # NoRat
              THEN RMul(cfg.extrude_speed, FilamentArea)
              ELSE cfg.flow_rate
        speed == IF req.flow_rate # NoRat THEN RDiv(fr, FilamentArea)
                 ELSE IF req.extrusion_speed # NoRat THEN cfg.extrude_speed
                 ELSE RDiv(fr, FilamentArea)
        pt == IF req.pause_time = NoRat THEN pause_time ELSE req.pause_time
    IN  [purge_length |-> len, layer_height |-> lh, extrusion_width |-> ew,
         extrusion_speed |-> speed, pause_qty |-> pq, pause_time |-> pt,
         flow_rate |-> fr, purge_volume |-> vol, purged_length |-> purged_length]

(***************************************************************************)
(* PurgeBelt: commands                                                     *)
(***************************************************************************)
\* bounds of the model: largest explicit PAUSE_QTY, number of syncs that may
\* raise, number of letters other steppers map one at a time, and the largest
\* extruder / belt coordinate a cycle may start from
MaxPause == 1
MaxFailedSyncs == 1
MaxOtherLetters == 1
MaxStart == 0

PIdle == pc = "idle"

\* the command just run, how it ended, and the rotation distance and sync
\* state it found
PDone(op, result) ==
    plast' = [op |-> op, result |-> result, rd_before |-> rotation_distance,
              synced_before |-> sync_status]

FreeLetters == {ascii_uppercase[i] : i \in 1..Len(ascii_uppercase)} \ ReservedLetters

\* sync_purge_belt would raise in the current state
SyncWouldRaise == ~sync_status /\ get_available_ea_label(CurBelt) = None

cmd_SYNC_PURGE_BELT(lh_arg, ew_arg) ==
    /\ PIdle
    /\ SyncWouldRaise => failed_syncs < MaxFailedSyncs
    /\ LET layer_height == IF lh_arg = NoRat THEN purge_layer_height ELSE lh_arg
           extrusion_width == IF ew_arg = NoRat THEN purge_extrusion_width ELSE ew_arg
           r == sync_purge_belt(CurBelt, layer_height, extrusion_width)
       IN  /\ CommitBelt(r.st)
           /\ failed_syncs' = IF r.raised THEN failed_syncs + 1 ELSE failed_syncs
           /\ PDone("SYNC_PURGE_BELT", IF r.raised THEN "ValueError" ELSE "ok")
    /\ UNCHANGED <<other_axes, belt_pos, init_pos, return_to_start_pos, pc, cyc, trace,
                   pending>>

cmd_UNSYNC_PURGE_BELT ==
    /\ PIdle
    /\ CommitBelt(unsync_purge_belt(CurBelt))
    /\ PDone("UNSYNC_PURGE_BELT", "ok")
    /\ UNCHANGED <<other_axes, belt_pos, init_pos, return_to_start_pos, pc, cyc,
                   trace, failed_syncs, pending>>

\* cmd_PURGE_WITH_BELT: derive the cycle's arguments and call purge_cycle
cmd_PURGE_WITH_BELT(req) ==
    /\ PIdle
    /\ RLe(toolhead_pos.e, N(MaxStart)) /\ RLe(belt_pos, N(MaxStart))
    /\ RLe(last_position.e, N(MaxStart))
    /\ SyncWouldRaise => failed_syncs < MaxFailedSyncs
    /\ LET d == DerivePurge(req)
       IN  cyc' = [purge_length |-> d.purge_length, layer_height |-> d.layer_height,
                   extrusion_width |-> d.extrusion_width,
                   extrusion_speed |-> d.extrusion_speed,
                   pause_qty |-> d.pause_qty, pause_time |-> d.pause_time,
                   flow_rate |-> d.flow_rate, req |-> req,
                   purge_height |-> N(0), i |-> 0, loop |-> FALSE,
                   short |-> FALSE]
    /\ pc' = "park"
    /\ trace' = <<>>
    /\ PDone("PURGE_WITH_BELT", "running")
    /\ UNCHANGED <<sync_status, rotation_distance, last_purge_belt_rotation_distance,
                   ea_index, belt_axis, other_axes, belt_pos, toolhead_pos,
                   last_position, init_pos, return_to_start_pos, failed_syncs,
                   pending>>

(***************************************************************************)
(* PurgeBelt: purge_cycle, one action per statement group                  *)
(***************************************************************************)
Emit(phase) == trace' = Append(trace, phase)

\* toolhead.wait_moves(): returns when everything queued has been executed
wait_moves == pending' = <<>>

\* toolhead.dwell(delay): the delay is queued behind what is pending; the call
\* does not wait for it
dwell(phase) == pending' = Append(pending, phase)

beltFields == <<sync_status, rotation_distance, last_purge_belt_rotation_distance,
                ea_index, belt_axis>>

\* move_to_park_pos: record the start position, travel to the park position.
\* gcode_move.last_position becomes a list of four coordinates: cyc.short
\* records that it has no element at the index of an extra axis, until
\* gcode_move rebuilds it when the axis map changes
Park ==
    /\ pc = "park"
    /\ init_pos' = toolhead_pos
    /\ last_position' = [x |-> park_pos_x, y |-> park_pos_y, z |-> park_pos_z,
                         e |-> toolhead_pos.e, a |-> toolhead_pos.a]
    /\ toolhead_pos' = last_position'
    /\ Emit("PARK")
    /\ wait_moves
    /\ cyc' = [cyc EXCEPT !.short = TRUE]
    /\ pc' = "branch"
    /\ UNCHANGED <<beltFields, other_axes, belt_pos, return_to_start_pos,
                   failed_syncs, plast>>

\* purge_height, then the choice between the single pass and the loop, where
\* purge_length / (pause_qty + 1) raises ZeroDivisionError for pause_qty = -1
\* the _no_split variant keeps the whole length for every segment
Branch_no_split ==
    /\ pc = "branch"
    /\ LET ph == RAdd(purge_belt_z, cyc.layer_height)
       IN  IF cyc.pause_qty = 0
           THEN /\ cyc' = [cyc EXCEPT !.purge_height = ph]
                /\ pc' = "approach"
                /\ UNCHANGED plast
           ELSE IF cyc.pause_qty + 1 = 0
           THEN /\ cyc' = [cyc EXCEPT !.purge_height = ph]
                /\ pc' = "idle"
                /\ PDone("PURGE_WITH_BELT", "ZeroDivisionError")
           ELSE /\ cyc' = [cyc EXCEPT !.purge_height = ph, !.loop = TRUE]
                /\ pc' = IF cyc.pause_qty + 1 > 0 THEN "approach" ELSE "outfeed"
                /\ UNCHANGED plast
    /\ UNCHANGED <<beltFields, other_axes, belt_pos, toolhead_pos, last_position,
                   init_pos, return_to_start_pos, trace, failed_syncs, pending>>

Branch ==
    /\ pc = "branch"
    /\ LET ph == RAdd(purge_belt_z, cyc.layer_height)
       IN  IF cyc.pause_qty = 0
           THEN /\ cyc' = [cyc EXCEPT !.purge_height = ph]
                /\ pc' = "approach"
                /\ UNCHANGED plast
           ELSE IF cyc.pause_qty + 1 = 0
           THEN /\ cyc' = [cyc EXCEPT !.purge_height = ph]
                /\ pc' = "idle"
                /\ PDone("PURGE_WITH_BELT", "ZeroDivisionError")
           ELSE /\ cyc' = [cyc EXCEPT !.purge_height = ph, !.loop = TRUE,
                             !.purge_length = RDiv(@, N(cyc.pause_qty + 1))]
                /\ pc' = IF cyc.pause_qty + 1 > 0 THEN "approach" ELSE "outfeed"
                /\ UNCHANGED plast
    /\ UNCHANGED <<beltFields, other_axes, belt_pos, toolhead_pos, last_position,
                   init_pos, return_to_start_pos, trace, failed_syncs, pending>>

Approach ==
    /\ pc = "approach"
    /\ last_position' = [last_position EXCEPT !.z = cyc.purge_height]
    /\ toolhead_pos' = last_position'
    /\ Emit("APPROACH")
    /\ wait_moves
    /\ pc' = "sync"
    /\ UNCHANGED <<beltFields, other_axes, belt_pos, init_pos, return_to_start_pos,
                   cyc, failed_syncs, plast>>

Sync ==
    /\ pc = "sync"
    /\ LET r == sync_purge_belt(CurBelt, cyc.layer_height, cyc.extrusion_width)
       IN  /\ CommitBelt(r.st)
           /\ IF r.raised
              THEN /\ pc' = "idle"
                   /\ failed_syncs' = failed_syncs + 1
                   /\ PDone("PURGE_WITH_BELT", "ValueError")
                   /\ UNCHANGED trace
              ELSE /\ pc' = "extrude"
                   /\ Emit("SYNC")
                   /\ UNCHANGED <<failed_syncs, plast>>
           /\ cyc' = [cyc EXCEPT !.short = IF r.st.belt_axis # belt_axis
                                           THEN FALSE ELSE @]
    /\ UNCHANGED <<other_axes, belt_pos, init_pos, return_to_start_pos, pending>>

\* the extrusion move; the belt, mapped to axis ea_index, follows its coordinate.
\* last_position[self.ea_index] raises IndexError when the list is still the
\* one of four coordinates (the sync before it found the belt synced already)
Extrude ==
    /\ pc = "extrude"
    /\ IF cyc.short
       THEN /\ last_position' = [last_position EXCEPT !.e = RAdd(@, cyc.purge_length)]
            /\ pc' = "idle"
            /\ PDone("PURGE_WITH_BELT", "IndexError")
            /\ UNCHANGED <<toolhead_pos, belt_pos, trace, pending>>
       ELSE /\ last_position' = [last_position EXCEPT
                                    !.e = RAdd(@, cyc.purge_length),
                                    !.a = RAdd(@, cyc.purge_length)]
            /\ toolhead_pos' = last_position'
            /\ belt_pos' = IF belt_axis # None THEN last_position'.a ELSE belt_pos
            /\ Emit("EXTRUDE")
            /\ wait_moves
            /\ pc' = "unsync"
            /\ UNCHANGED plast
    /\ UNCHANGED <<beltFields, other_axes, init_pos, return_to_start_pos, cyc,
                   failed_syncs>>

\* the UNSYNC phase; the _then_return variant skips the retract that follows
Unsync_then_return ==
    /\ pc = "unsync"
    /\ CommitBelt(unsync_purge_belt(CurBelt))
    /\ Emit("UNSYNC")
    /\ cyc' = [cyc EXCEPT !.short = IF sync_status THEN TRUE ELSE @]
    /\ pc' = "return_z"
    /\ UNCHANGED <<other_axes, belt_pos, init_pos, return_to_start_pos,
                   failed_syncs, plast, pending>>

Unsync ==
    /\ pc = "unsync"
    /\ CommitBelt(unsync_purge_belt(CurBelt))
    /\ Emit("UNSYNC")
    /\ cyc' = [cyc EXCEPT !.short = IF sync_status THEN TRUE ELSE @]
    /\ pc' = "retract"
    /\ UNCHANGED <<other_axes, belt_pos, init_pos, return_to_start_pos,
                   failed_syncs, plast, pending>>

\* retract the filament while the belt runs on by the retract travel distance
Retract ==
    /\ pc = "retract"
    /\ last_position' = [last_position EXCEPT !.e = RSub(@, retract_dist)]
    /\ belt_pos' = RAdd(belt_pos, purge_belt_retract_travel_dist)
    /\ toolhead_pos' = last_position'
    /\ Emit("RETRACT")
    /\ wait_moves
    /\ pc' = "return_z"
    /\ UNCHANGED <<beltFields, other_axes, init_pos, return_to_start_pos, cyc,
                   failed_syncs, plast>>

\* the end of one pass of "for i in range(pause_qty + 1)"
NextIteration ==
    /\ cyc' = [cyc EXCEPT !.i = @ + 1]
    /\ pc' = IF cyc.i + 1 < cyc.pause_qty + 1 THEN "approach" ELSE "outfeed"

\* "if i < pause_qty" after the return to the park height; the _inclusive
\* variant dwells after the final segment too
DwellDue_inclusive(c) == c.i <= c.pause_qty

DwellDue(c) == c.i < c.pause_qty

\* back to the park height; then the dwell, the next segment or the outfeed
ReturnZ ==
    /\ pc = "return_z"
    /\ last_position' = [last_position EXCEPT !.z = park_pos_z]
    /\ toolhead_pos' = last_position'
    /\ Emit("RETURN_Z")
    /\ wait_moves
    /\ IF ~cyc.loop THEN pc' = "outfeed" /\ UNCHANGED cyc
       ELSE IF DwellDue(cyc) THEN pc' = "dwell" /\ UNCHANGED cyc
       ELSE NextIteration
    /\ UNCHANGED <<beltFields, other_axes, belt_pos, init_pos, return_to_start_pos,
                   failed_syncs, plast>>

Dwell ==
    /\ pc = "dwell"
    /\ Emit("DWELL")
    /\ dwell("DWELL")
    /\ NextIteration
    /\ UNCHANGED <<beltFields, other_axes, belt_pos, toolhead_pos, last_position,
                   init_pos, return_to_start_pos, failed_syncs, plast>>

\* clear the belt: the belt alone moves on by the outfeed length
Outfeed ==
    /\ pc = "outfeed"
    /\ belt_pos' = RAdd(belt_pos, purge_belt_outfeed_length)
    /\ Emit("OUTFEED")
    /\ wait_moves
    /\ pc' = "restore"
    /\ UNCHANGED <<beltFields, other_axes, toolhead_pos, last_position, init_pos,
                   return_to_start_pos, cyc, failed_syncs, plast>>

\* restore_pos: self.gcode.last_position (not gcode_move's) receives init_pos,
\* and the toolhead is moved to gcode_move.last_position
restore_pos ==
    /\ pc = "restore"
    /\ IF return_to_start_pos
       THEN /\ init_pos' = [init_pos EXCEPT !.e = last_position.e]
            /\ toolhead_pos' = last_position
            /\ Emit("RETURN")
            /\ wait_moves
       ELSE UNCHANGED <<init_pos, toolhead_pos, trace, pending>>
    /\ pc' = "idle"
    /\ PDone("PURGE_WITH_BELT", "ok")
    /\ UNCHANGED <<beltFields, other_axes, belt_pos, last_position,
                   return_to_start_pos, cyc, failed_syncs>>

(***************************************************************************)
(* Other commands of the printer that touch the same state                 *)
(***************************************************************************)
\* MANUAL_STEPPER GCODE_AXIS=... of other manual steppers: between two belt
\* commands they leave some of the first free letters, or all letters, mapped
OtherAxesChoices ==
    LET firstFree == {l \in FreeLetters :
            Cardinality({m \in FreeLetters :
                \E i, j \in 1..Len(ascii_uppercase) :
                    /\ ascii_uppercase[i] = m /\ ascii_uppercase[j] = l
                    /\ i < j}) < MaxOtherLetters}
    IN  SUBSET firstFree \cup {FreeLetters}

OtherGcodeAxis(axes) ==
    /\ PIdle
    /\ ~sync_status
    /\ other_axes # axes
    /\ other_axes' = axes
    /\ PDone("MANUAL_STEPPER", "ok")
    /\ UNCHANGED <<beltFields, belt_pos, toolhead_pos, last_position, init_pos,
                   return_to_start_pos, pc, cyc, trace, failed_syncs, pending>>

(***************************************************************************)
(* The requests tried                                                      *)
(***************************************************************************)
Req(lh, ew, vol, len, pq, fr, sp, pt) ==
    [layer_height |-> lh, extrusion_width |-> ew, purge_volume |-> vol,
     purge_length |-> len, pause_qty |-> pq, flow_rate |-> fr,
     extrusion_speed |-> sp, pause_time |-> pt]

GeoArgs == {<<NoRat, NoRat>>, <<Rat(1, 5), NoRat>>, <<NoRat, Rat(1, 2)>>}
AmountArgs == {<<NoRat, NoRat>>, <<NoRat, N(10)>>, <<Rat(77, 2), NoRat>>}
PauseArgs == {NoInt} \cup (-2..MaxPause)
FlowArgs == {<<NoRat, NoRat>>, <<N(20), NoRat>>, <<N(50), NoRat>>,
             <<NoRat, N(8)>>, <<N(50), N(8)>>}
TimeArgs == {NoRat, N(2)}

\* the parameter groups are varied one at a time around a short purge
\* (PURGE_LENGTH=10) with everything else left to its default
PurgeRequests ==
    {Req(g[1], g[2], a[1], a[2], NoInt, NoRat, NoRat, NoRat) :
        g \in GeoArgs, a \in AmountArgs}
    \cup {Req(NoRat, NoRat, NoRat, N(10), pq, NoRat, NoRat, pt) :
        pq \in PauseArgs, pt \in TimeArgs}
    \cup {Req(NoRat, NoRat, NoRat, N(10), 0, f[1], f[2], NoRat) : f \in FlowArgs}

SyncArgs == {<<NoRat, NoRat>>, <<Rat(1, 5), NoRat>>}

\* PURGE_VOLUME / PURGE_LENGTH tried by the derivation: the default length,
\* lengths and volumes whose purged length is under, over and a multiple of
\* purged_length_section_max
DeriveAmountArgs ==
    {<<NoRat, NoRat>>, <<NoRat, N(10)>>, <<NoRat, N(500)>>,
     <<N(16), NoRat>>, <<Rat(77, 2), NoRat>>, <<N(64), NoRat>>}

\* every combination of the parameter groups, for the derivation alone
DeriveRequests ==
    {Req(g[1], g[2], a[1], a[2], pq, f[1], f[2], NoRat) :
        g \in GeoArgs, a \in DeriveAmountArgs, pq \in PauseArgs, f \in FlowArgs}

Init == InitLink /\ InitPurge /\ cfg = DefaultConfig

InitLinkOnly == InitLink /\ InitPurge /\ return_to_start_pos /\ cfg = DefaultConfig

Next ==
    \/ UNCHANGED <<linkVars, cfg>> /\ \E a \in SyncArgs : cmd_SYNC_PURGE_BELT(a[1], a[2])
    \/ UNCHANGED <<linkVars, cfg>> /\ cmd_UNSYNC_PURGE_BELT
    \/ UNCHANGED <<linkVars, cfg>> /\ \E req \in PurgeRequests : cmd_PURGE_WITH_BELT(req)
    \/ UNCHANGED <<linkVars, cfg>> /\ Park
    \/ UNCHANGED <<linkVars, cfg>> /\ Branch
    \/ UNCHANGED <<linkVars, cfg>> /\ Approach
    \/ UNCHANGED <<linkVars, cfg>> /\ Sync
    \/ UNCHANGED <<linkVars, cfg>> /\ Extrude
    \/ UNCHANGED <<linkVars, cfg>> /\ Unsync
    \/ UNCHANGED <<linkVars, cfg>> /\ Retract
    \/ UNCHANGED <<linkVars, cfg>> /\ ReturnZ
    \/ UNCHANGED <<linkVars, cfg>> /\ Dwell
    \/ UNCHANGED <<linkVars, cfg>> /\ Outfeed
    \/ UNCHANGED <<linkVars, cfg>> /\ restore_pos
    \/ UNCHANGED <<linkVars, cfg>> /\ \E axes \in OtherAxesChoices : OtherGcodeAxis(axes)

Spec == Init /\ [][Next]_vars

LinkNext ==
    \/ UNCHANGED <<purgeVars, cfg>> /\ \E e \in BOOLEAN : do_enable(e)
    \/ UNCHANGED <<purgeVars, cfg>> /\ \E p \in Pos : do_set_position(p)
    \/ UNCHANGED <<purgeVars, cfg>> /\ \E p \in Pos : do_move(p)
    \/ UNCHANGED <<purgeVars, cfg>> /\ do_homing_move
    \/ UNCHANGED <<purgeVars, cfg>> /\ \E n \in LinkedExtruderArgs, e \in EndstopNames : do_linked_homing_move(n, e)
    \/ UNCHANGED <<purgeVars, cfg>> /\ \E p \in Pos, n \in LinkedExtruderArgs : do_linked_move(p, n)
    \/ UNCHANGED <<purgeVars, cfg>> /\ \E n \in LinkedStepperArgs \cup {None}, e \in EndstopNames :
            do_linked_stepper_homing_move(n, e)
    \/ UNCHANGED <<purgeVars, cfg>> /\ \E p \in Pos, n \in LinkedStepperArgs \cup {None} : do_linked_stepper_move(p, n)
    \/ UNCHANGED <<purgeVars, cfg>> /\ \E a \in CmdArgs :
            cmd_MANUAL_EXTRUDER_STEPPER(a[1], a[2], a[3], a[4], a[5], a[6])
    \/ UNCHANGED <<purgeVars, cfg>> /\ \E n \in ObjectNames \cup {None} : cmd_SYNC_EXTRUDER_MOTION(n)
    \/ UNCHANGED <<purgeVars, cfg>> /\ \E n \in LinkedExtruderArgs, e \in EndstopNames, w \in WrappedArgs :
            with_linked_extruder(n, e, w[1], w[2])
    \/ UNCHANGED <<purgeVars, cfg>> /\ \E n \in LinkedStepperArgs, e \in EndstopNames, w \in WrappedArgs :
            with_linked_stepper(n, e, w[1], w[2])
    \/ UNCHANGED <<purgeVars, cfg>> /\ WrappedMove
    \/ UNCHANGED <<purgeVars, cfg>> /\ WrappedHomingMove
    \/ UNCHANGED <<purgeVars, cfg>> /\ SessionExit

SpecLink == InitLinkOnly /\ [][LinkNext]_vars

\* cmd_PURGE_WITH_BELT up to the start of the cycle, for every option section
\* and every request
InitDerive == InitLink /\ InitPurge /\ return_to_start_pos /\ cfg \in Configs

DeriveNext ==
    \/ UNCHANGED <<linkVars, cfg>> /\ \E req \in DeriveRequests : cmd_PURGE_WITH_BELT(req)
    \/ UNCHANGED <<linkVars, cfg>> /\ Park

SpecDerive == InitDerive /\ [][DeriveNext]_vars

(***************************************************************************)
(* Claims about ManualExtruderStepper (checked under SpecLink)             *)
(***************************************************************************)
\* a direct manual command on the stepper, whatever its arguments
ManualCall ==
    \/ \E e \in BOOLEAN : do_enable(e)
    \/ \E p \in Pos : do_set_position(p)
    \/ \E p \in Pos : do_move(p)
    \/ do_homing_move
    \/ \E n \in LinkedExtruderArgs, e \in EndstopNames : do_linked_homing_move(n, e)
    \/ \E p \in Pos, n \in LinkedExtruderArgs : do_linked_move(p, n)
    \/ \E n \in LinkedStepperArgs \cup {None}, e \in EndstopNames :
            do_linked_stepper_homing_move(n, e)
    \/ \E p \in Pos, n \in LinkedStepperArgs \cup {None} : do_linked_stepper_move(p, n)
    \/ \E a \in CmdArgs :
            cmd_MANUAL_EXTRUDER_STEPPER(a[1], a[2], a[3], a[4], a[5], a[6])

BindingConflict(l) ==
    l.result \in {"AssertionError", "command_error"} /\ l.msg = "synced"

\* C1: while the stepper is synced to a motion queue, every direct manual
\* command (enable, set_position, move, homing_move, the linked variants and
\* MANUAL_EXTRUDER_STEPPER) ends in a binding-conflict error and leaves the
\* positions, the enable state, both channel lists and the binding as they were.
C1_SyncedRejectsManual ==
    [][(is_synced /\ ManualCall) =>
         /\ BindingConflict(last')
         /\ UNCHANGED <<pos, enabled, steppers, rail_steppers, motion_queue,
                        sk, trapq>>]_vars

C1_Witness ==
    /\ is_synced
    /\ last.op = "do_move"
    /\ BindingConflict(last)

SessionOps == {"_with_linked_extruder", "_with_linked_stepper"}

\* the wrapped operation of the session just left has run (normally or not)
SessionLeft ==
    /\ sess.pc = "idle"
    /\ snap.taken
    /\ last.op \in SessionOps
    /\ \/ last.result = "ok"
       \/ last.result = "command_error" /\ last.msg = "wrapped_failed"

\* the channel lists, the binding and the borrowed channel's kinematics and
\* trapq are those recorded before entry
RestoredToEntry ==
    /\ steppers = snap.steppers
    /\ rail_steppers = snap.rail_steppers
    /\ motion_queue = snap.motion_queue
    /\ sk[snap.borrowed] = snap.sk[snap.borrowed]
    /\ trapq[snap.borrowed] = snap.trapq[snap.borrowed]

\* C2: once a session whose wrapped operation started has been left, normally
\* or by an error of the wrapped operation, both channel lists, the binding
\* and the borrowed channel's kinematics handle and trapq equal their values
\* before entry; no error is reported while the session is still open.
C2_SessionRoundTrip ==
    /\ SessionLeft => RestoredToEntry
    /\ sess.pc # "idle" => last.result = "running"

C2_Witness ==
    /\ SessionLeft
    /\ last.result = "command_error"
    /\ snap.motion_queue # None
    /\ RestoredToEntry

\* C3: a session entered with an endstop name that does not resolve fails
\* with endstop-not-found leaving the channel lists, the binding and the
\* borrowed channel's kinematics handle, trapq and position at their values
\* before entry.
C3_EndstopNotFoundLeavesState ==
    (last.msg = "endstop_not_found" /\ snap.taken) =>
        /\ RestoredToEntry
        /\ pos[sk[snap.borrowed]] = snap.cpos[snap.borrowed]

\* C15: every channel in the stepper's channel list has the kinematic model
\* of the binding: the single-axis manual model while free (also inside a
\* session, where the borrowed channel carries the linked-move model of the
\* same shape), the extruder model while bound to a motion queue.
C15_ChannelModelConsistent ==
    \A c \in Range(steppers) :
        sk_model(sk[c]) = IF motion_queue = None THEN "cartesian_x" ELSE "extruder"

\* a session requested for a name that does not resolve, by a caller of the
\* context managers or through a linked move of an unbound stepper
UnresolvedExtruderArgs == LinkedExtruderArgs \ {ActiveExtruder}
UnresolvedStepperArgs == LinkedStepperArgs \ ManualSteppers

UnresolvedEntry ==
    \/ \E n \in UnresolvedExtruderArgs, e \in EndstopNames, w \in WrappedArgs :
            with_linked_extruder(n, e, w[1], w[2])
    \/ \E n \in UnresolvedStepperArgs, e \in EndstopNames, w \in WrappedArgs :
            with_linked_stepper(n, e, w[1], w[2])
    \/ /\ ~is_synced
       /\ \/ \E n \in UnresolvedExtruderArgs, e \in EndstopNames :
                do_linked_homing_move(n, e)
          \/ \E p \in Pos, n \in UnresolvedExtruderArgs : do_linked_move(p, n)
          \/ \E n \in UnresolvedStepperArgs, e \in EndstopNames :
                do_linked_stepper_homing_move(n, e)
          \/ \E p \in Pos, n \in UnresolvedStepperArgs : do_linked_stepper_move(p, n)

\* C16: a session requested for a name that is not the active extruder, or
\* not a manual stepper, ends in target-not-found with the binding, both
\* channel lists, every channel's kinematics handle, trapq and position and
\* the endstops unchanged, and with no wrapped move pending.
C16_UnresolvedTargetRejected ==
    [][UnresolvedEntry =>
         /\ last'.result = "command_error" /\ last'.msg = "target_not_found"
         /\ sess'.pc = "idle"
         /\ UNCHANGED <<motion_queue, synced_extruder_name, steppers, rail_steppers,
                        sk, trapq, pos, endstop_steppers>>]_vars

C16_Witness ==
    /\ last.op = "_with_linked_stepper"
    /\ last.msg = "target_not_found"
    /\ is_synced
    /\ sess.pc = "idle"

\* C17: sync_to_extruder with a name that is not a PrinterExtruder raises and
\* leaves the binding, every kinematics handle, trapq and position as they
\* were; sync_to_extruder(None) ends with the binding cleared and the manual
\* model on every channel of the stepper's list.
C17_BindContract ==
    /\ [][\A n \in ObjectNames \ PrinterExtruders :
            cmd_SYNC_EXTRUDER_MOTION(n) =>
                /\ last'.result = "command_error"
                /\ UNCHANGED <<motion_queue, synced_extruder_name, sk, trapq, pos>>]_vars
    /\ []((last.op = "sync_to_extruder" /\ last.result = "ok" /\ motion_queue = None) =>
            \A c \in Range(steppers) : sk_model(sk[c]) = "cartesian_x")

\* C18: when a session has yielded to its wrapped operation, the borrowed
\* channel has self.linked_move_sk and the manual stepper's trapq, its
\* commanded position is that of the stepper's first channel, and the
\* stepper is not bound to a motion queue.
C18_YieldedState ==
    sess.pc = "yielded" =>
        LET b == sess.frame.borrowed
        IN  /\ sk[b] = "linked_move_sk"
            /\ trapq[b] = manual_trapq
            /\ get_commanded_position(Cur, b) = get_commanded_position(Cur, steppers[1])
            /\ motion_queue = None

C18_Witness ==
    /\ sess.pc = "yielded"
    /\ snap.taken /\ snap.motion_queue # None
    /\ get_commanded_position(Cur, sess.frame.borrowed) = MaxPos
    /\ snap.cpos[sess.frame.borrowed] # MaxPos

(***************************************************************************)
(* Claims about PurgeBelt (checked under Spec)                             *)
(***************************************************************************)
SyncCall == \E a \in SyncArgs : cmd_SYNC_PURGE_BELT(a[1], a[2])

\* C4: sync from the Free state followed directly by unsync leaves the
\* belt's rotation distance at its value before the sync, and the controller
\* Free.
C4_SyncUnsyncRestores ==
    [][(plast.op = "SYNC_PURGE_BELT" /\ ~plast.synced_before /\ cmd_UNSYNC_PURGE_BELT)
        => (rotation_distance' = plast.rd_before /\ ~sync_status')]_vars

\* C5: sync while Synced (as a command or as the SYNC phase of a cycle)
\* changes neither the rotation distance, the saved rotation distance, the
\* axis letter and index nor the sync flag; unsync while Free changes none
\* of them either and ends without error.
C5_SyncUnsyncIdempotent ==
    [][/\ (sync_status /\ (SyncCall \/ Sync)) =>
            UNCHANGED <<rotation_distance, last_purge_belt_rotation_distance,
                        belt_axis, ea_index, sync_status>>
       /\ (~sync_status /\ cmd_UNSYNC_PURGE_BELT) =>
            /\ UNCHANGED <<rotation_distance, last_purge_belt_rotation_distance,
                           belt_axis, ea_index, sync_status>>
            /\ plast'.result = "ok"]_vars

C5_Witness ==
    /\ plast.op = "SYNC_PURGE_BELT"
    /\ plast.synced_before
    /\ sync_status

\* C6: a sync called in the Free state when no axis letter is free is
\* rejected with an error and leaves the sync flag Free and the rotation
\* distance at its value before the call.
C6_NoFreeLetterLeavesState ==
    (plast.op = "SYNC_PURGE_BELT" /\ plast.result = "ValueError") =>
        /\ ~sync_status
        /\ rotation_distance = plast.rd_before

RECURSIVE Repeat(_, _)
Repeat(sq, n) == IF n <= 0 THEN <<>> ELSE sq \o Repeat(sq, n - 1)

IsPrefix(a, b) == Len(a) <= Len(b) /\ SubSeq(b, 1, Len(a)) = a

SegmentPhases == {"PARK", "APPROACH", "SYNC", "EXTRUDE", "UNSYNC", "RETRACT", "RETURN_Z"}
SegmentWithPark == <<"PARK", "APPROACH", "SYNC", "EXTRUDE", "UNSYNC", "RETRACT", "RETURN_Z">>
SegmentBody == Tail(SegmentWithPark)

\* the phases of the trace that belong to segments
SegmentTrace == SelectSeq(trace, LAMBDA ph : ph \in SegmentPhases)

\* a cycle has been started; cyc holds its arguments
CycleStarted == plast.op = "PURGE_WITH_BELT"
CycleCompleted == plast.op = "PURGE_WITH_BELT" /\ plast.result = "ok"

\* C7 as stated: a completed cycle with pause count p >= 0 has performed
\* PARK, APPROACH, SYNC, EXTRUDE, UNSYNC, RETRACT, RETURN-TO-PARK-Z once for
\* each of its p + 1 segments.
C7_ParkInEverySegment ==
    (CycleCompleted /\ cyc.pause_qty >= 0) =>
        SegmentTrace = Repeat(SegmentWithPark, cyc.pause_qty + 1)

\* C7 as amended: a cycle performs PARK once, before the first segment, and
\* then for each of its p + 1 segments APPROACH, SYNC, EXTRUDE, UNSYNC,
\* RETRACT, RETURN-TO-PARK-Z in that order, segment after segment; a cycle
\* stopped by an error has performed a prefix of that sequence.
C7_PhaseOrder ==
    CycleStarted =>
        LET expected == <<"PARK">> \o Repeat(SegmentBody, cyc.pause_qty + 1)
        IN  /\ IsPrefix(SegmentTrace, expected)
            /\ CycleCompleted => SegmentTrace = expected

C7_Witness ==
    /\ CycleCompleted
    /\ cyc.pause_qty = 1
    /\ SegmentTrace = <<"PARK">> \o SegmentBody \o SegmentBody

NumDwell == Cardinality({i \in 1..Len(trace) : trace[i] = "DWELL"})

\* C8: a cycle with pause count p >= 0 never issues more than p DWELLs and
\* has issued exactly p when it completes; every DWELL directly follows a
\* RETURN-TO-PARK-Z and, once the cycle has gone on, is directly followed by
\* an APPROACH, so none follows the final segment.
C8_DwellBetweenSegments ==
    (CycleStarted /\ cyc.pause_qty >= 0) =>
        /\ NumDwell <= cyc.pause_qty
        /\ CycleCompleted => NumDwell = cyc.pause_qty
        /\ \A i \in 1..Len(trace) : trace[i] = "DWELL" =>
            /\ i > 1 /\ trace[i - 1] = "RETURN_Z"
            /\ i < Len(trace) => trace[i + 1] = "APPROACH"
            /\ CycleCompleted => i < Len(trace)

C8_Witness ==
    /\ CycleCompleted
    /\ cyc.pause_qty = 1
    /\ NumDwell = 1

\* C9: with return_to_start_pos, after a completed cycle (pause count >= 0)
\* the toolhead's X, Y and Z are those recorded before PARK and its extrusion
\* coordinate is the one accumulated during the cycle.
C9_ReturnsToStart ==
    (CycleCompleted /\ return_to_start_pos /\ cyc.pause_qty >= 0) =>
        /\ toolhead_pos.x = init_pos.x
        /\ toolhead_pos.y = init_pos.y
        /\ toolhead_pos.z = init_pos.z
        /\ toolhead_pos.e = last_position.e

\* C10: with an explicit FLOW_RATE the cycle's effective flow rate is
\* max_flow_rate when the request exceeds it and the request otherwise, and
\* the cycle's extrusion speed is that flow rate divided by the filament
\* cross-section.
C10_FlowRateClamp ==
    (CycleStarted /\ cyc.req.flow_rate # NoRat) =>
        /\ RLt(max_flow_rate, cyc.req.flow_rate) => cyc.flow_rate = max_flow_rate
        /\ RLe(cyc.req.flow_rate, max_flow_rate) => cyc.flow_rate = cyc.req.flow_rate
        /\ cyc.extrusion_speed = RDiv(cyc.flow_rate, FilamentArea)

C10_Witness ==
    /\ CycleStarted
    /\ cyc.req.flow_rate = N(50)
    /\ cyc.flow_rate = max_flow_rate
    /\ cyc.extrusion_speed = RDiv(max_flow_rate, FilamentArea)

LetterIndex(l) == CHOOSE i \in 1..Len(ascii_uppercase) : ascii_uppercase[i] = l

\* the first letter of A..Z outside the reserved set and the given map keys
FirstFreeLetter(keys) ==
    CHOOSE l \in FreeLetters \ keys :
        \A m \in FreeLetters \ keys : LetterIndex(l) <= LetterIndex(m)

\* C19: the belt holds an axis letter exactly while Synced; a sync from Free
\* that succeeds gives it the first letter of A..Z that is neither reserved
\* nor in the axis map, leaving the other letters alone; the unsync that
\* ends Synced releases the letter.
C19_AxisLetterAllocation ==
    /\ [](sync_status <=> belt_axis # None)
    /\ [][(~sync_status /\ sync_status') =>
            /\ belt_axis' = FirstFreeLetter(other_axes)
            /\ other_axes' = other_axes]_vars
    /\ [][(sync_status /\ ~sync_status') =>
            /\ belt_axis' = None
            /\ other_axes' = other_axes]_vars

C19_Witness ==
    /\ sync_status
    /\ other_axes = {"A"}
    /\ belt_axis = "B"

\* the total length of the started cycle and the length of one segment
TotalLength == DerivePurge(cyc.req).purge_length
SegmentLength == RDiv(TotalLength, N(cyc.pause_qty + 1))

NumPhase(ph) == Cardinality({i \in 1..Len(trace) : trace[i] = ph})

\* C20: in a cycle with total length L and pause count p >= 0 every EXTRUDE
\* that is issued advances the extrusion coordinate and the belt by L / (p + 1) and changes
\* none of the cycle's values; while the cycle runs, after k EXTRUDEs and r
\* RETRACTs the extrusion coordinate is its start value plus k * L / (p + 1)
\* minus r * retract_dist, and a completed cycle has extruded p + 1 times,
\* L in all.
C20_SegmentLength ==
    /\ [][(Extrude /\ pc' = "unsync" /\ cyc.pause_qty >= 0) =>
            /\ last_position'.e = RAdd(last_position.e, SegmentLength)
            /\ belt_pos' = RAdd(belt_pos, SegmentLength)
            /\ cyc' = cyc]_vars
    /\ []((CycleStarted /\ cyc.pause_qty >= 0 /\ trace # <<>>) =>
            /\ pc # "idle" =>
                  last_position.e =
                    RSub(RAdd(init_pos.e, RMul(N(NumPhase("EXTRUDE")), SegmentLength)),
                         RMul(N(NumPhase("RETRACT")), retract_dist))
            /\ CycleCompleted =>
                  /\ NumPhase("EXTRUDE") = cyc.pause_qty + 1
                  /\ RMul(N(NumPhase("EXTRUDE")), SegmentLength) = TotalLength)

C20_Witness ==
    /\ CycleCompleted
    /\ cyc.pause_qty = 1
    /\ TotalLength = N(10)
    /\ NumPhase("EXTRUDE") = 2
    /\ cyc.purge_length = N(5)

(***************************************************************************)
(* Claims about the derivation of cmd_PURGE_WITH_BELT (checked under       *)
(* SpecDerive)                                                             *)
(***************************************************************************)
\* C11: with an explicit EXTRUSION_SPEED and no FLOW_RATE the cycle's
\* extrusion speed is the requested speed and its flow rate is that speed
\* times the filament cross-section.
C11_ExplicitSpeedUsed ==
    (CycleStarted /\ cyc.req.flow_rate = NoRat /\ cyc.req.extrusion_speed # NoRat) =>
        /\ cyc.extrusion_speed = cyc.req.extrusion_speed
        /\ cyc.flow_rate = RMul(cyc.req.extrusion_speed, FilamentArea)

\* C12: whatever determines it, the cycle's flow rate is at most the
\* configured max_flow_rate.
C12_FlowNeverExceedsMax ==
    CycleStarted => RLe(cyc.flow_rate, cfg.max_flow_rate)

\* purged length of the started cycle's request: volume / (width * height)
PurgedLength == DerivePurge(cyc.req).purged_length

\* no explicit PAUSE_QTY and a purged length over the per-segment maximum
PauseCountDerived ==
    /\ CycleStarted
    /\ cyc.req.pause_qty = NoInt
    /\ RLt(cfg.purged_length_section_max, PurgedLength)

\* C13: a derived pause count p is the least p >= 0 with
\* purged_length / (p + 1) at or under the per-segment maximum.
C13_MinimalPauseCount ==
    PauseCountDerived =>
        /\ cyc.pause_qty >= 0
        /\ RLe(RDiv(PurgedLength, N(cyc.pause_qty + 1)), cfg.purged_length_section_max)
        /\ cyc.pause_qty > 0 =>
              RLt(cfg.purged_length_section_max, RDiv(PurgedLength, N(cyc.pause_qty)))

\* the least integer at or above the positive rational r
CeilRange == 1..200
Ceiling(r) == CHOOSE n \in CeilRange : RLe(r, N(n)) /\ RLt(N(n - 1), r)

\* C14: a derived pause count is at least ceil(purged_length / M); an
\* explicit PAUSE_QTY is used unchanged; with none given and a purged length
\* at or under M the configured default pause count is used.
C14_PauseCountDerivation ==
    CycleStarted =>
        /\ PauseCountDerived =>
              cyc.pause_qty >= Ceiling(RDiv(PurgedLength, cfg.purged_length_section_max))
        /\ cyc.req.pause_qty # NoInt => cyc.pause_qty = cyc.req.pause_qty
        /\ (cyc.req.pause_qty = NoInt /\ ~PauseCountDerived) =>
              cyc.pause_qty = cfg.pause_qty

C14_Witness ==
    /\ PauseCountDerived
    /\ cfg = DefaultConfig
    /\ cyc.req.purge_length = NoRat /\ cyc.req.purge_volume = NoRat
    /\ cyc.req.layer_height = NoRat /\ cyc.req.extrusion_width = NoRat
    /\ cyc.pause_qty = 4

\* the positions of the trace that hold OUTFEED
OutfeedAt == {i \in 1..Len(trace) : trace[i] = "OUTFEED"}

\* C21: a completed cycle has issued OUTFEED exactly once, directly after a
\* RETURN-TO-PARK-Z that ends a segment with an EXTRUDE, and nothing but the
\* RETURN follows it; when the RETURN is about to be issued nothing queued
\* by OUTFEED is still pending.
C21_OutfeedOnceAfterLastSegment ==
    /\ CycleCompleted =>
          /\ Cardinality(OutfeedAt) = 1
          /\ \A i \in OutfeedAt :
                /\ i > 1 /\ trace[i - 1] = "RETURN_Z"
                /\ \E j \in 1..(i - 1) : trace[j] = "EXTRUDE"
                /\ \A j \in (i + 1)..Len(trace) : trace[j] = "RETURN"
    /\ pc = "restore" => pending = <<>>

\* a step that issues the command of one more phase
IssuesPhase == Len(trace') = Len(trace) + 1

\* C22: whenever a cycle issues the command of a phase, everything queued by
\* the phases before it has been waited for: no phase is issued while
\* another has motion or a dwell pending.
C22_PhaseBoundariesDrained ==
    [][IssuesPhase => pending = <<>>]_vars

\* C23: the pause count of every cycle that starts is at least 0; no cycle
\* ends in a division by zero; and when OUTFEED is issued the cycle has
\* performed pause_qty + 1 >= 1 EXTRUDE phases.
C23_PauseCountNonNegative ==
    CycleStarted =>
        /\ cyc.pause_qty >= 0
        /\ plast.result # "ZeroDivisionError"
        /\ OutfeedAt # {} =>
              /\ NumPhase("EXTRUDE") = cyc.pause_qty + 1
              /\ NumPhase("EXTRUDE") >= 1

\* a session has been entered and is over, however it ended
SessionOver ==
    /\ sess.pc = "idle"
    /\ snap.taken

\* C24: once a session is over, normally or by an error, the set of
\* channels attached to each endstop is the one recorded before entry.
C24_EndstopGroupRestored ==
    SessionOver => endstop_steppers = snap.endstop_steppers

\* the phase issued last in the running cycle
LastPhase == IF trace = <<>> THEN None ELSE trace[Len(trace)]

\* extruder flow area over the flow area of the purged strand
FlowCorrectionFactor(layer_height, extrusion_width) ==
    RDiv(FilamentArea, RMul(layer_height, extrusion_width))

\* C25: when a cycle has just issued EXTRUDE, the cycle was started Free and
\* the belt's rotation distance is the one it had then, divided by the
\* flow-correction factor of the cycle's layer height and extrusion width;
\* RETRACT and OUTFEED are issued only while Free; and a cycle that
\* completes was started Free and ends Free with the rotation distance it
\* started with.
C25_BeltGearedForThisCycle ==
    /\ [](( pc # "idle" /\ LastPhase = "EXTRUDE") =>
            /\ ~plast.synced_before
            /\ rotation_distance =
                  RDiv(plast.rd_before,
                       FlowCorrectionFactor(cyc.layer_height, cyc.extrusion_width)))
    /\ [][/\ (IssuesPhase /\ trace'[Len(trace')] \in {"RETRACT", "OUTFEED"}) =>
                ~sync_status
          /\ (pc = "restore" /\ pc' = "idle") =>
                /\ ~plast.synced_before
                /\ ~sync_status'
                /\ rotation_distance' = plast.rd_before]_vars

====
